---- MODULE Spec2Model ----
(***************************************************************************)
(* amalgamate.py: the amalgamation of the C# sources matched by PATTERN    *)
(* into the single file OUTPUT.  main() is modelled as a sequential        *)
(* process; text is modelled by TLA+ strings, character by character.      *)
(***************************************************************************)
EXTENDS Integers, Sequences, FiniteSets, TLC

\* ------------------------------------------------------------------ bounds
\* Files in a directory of short files, and in a directory of core files.
MaxFiles == 2
\* Lines of the file of a directory that holds one file.
MaxLines == 3
\* Lines of a core file.
MaxCoreLines == 2
\* Runs of main() over the same files.
MaxRuns == 2

\* --------------------------------------------------------------- constants
\* The byte-order marker that the codec 'utf-8-sig' recognises at the start of
\* a file (EF BB BF, one character U+FEFF), written here as the one character
\* "~", which occurs nowhere else in the modelled texts.
BOM == "~"

\* The literal printed at amalgamate.py:30-41 (print adds its own "\n").
LicenseText ==
  "/*\n\nDocopt.NET (https://github.com/docopt/docopt.net)\n\nCopyright (c) 2012 Vladimir Keleshev, <vladimir@keleshev.com>\n                   Dinh Doan Van Bien, <dinh@doanvanbien.com>\n\nLicensed under MIT (https://github.com/docopt/docopt.net/blob/master/LICENSE-MIT)\n\n*/\n\n"

\* The contents of lines the input files are made of (without terminator):
\* import, namespace and brace lines, and body lines (one of them blank, one
\* with a keyword and a brace after a leading blank).
LineSet ==
  { "using B;", "using A;", "namespace N", "{", "}", "class C {}", " using {", "" }

\* The lines of the core files: an import line and a body line.
CoreLines == { "using A;", "class C {}" }

\* What OUTPUT may hold before a run: no file, or a file left by something else.
NoFile == [exists |-> FALSE, text |-> ""]
Stale == [exists |-> TRUE, text |-> "stale\n"]

\* ----------------------------------------------------------------- strings
\* str.startswith
StartsWith(s, p) == Len(s) >= Len(p) /\ SubSeq(s, 1, Len(p)) = p

\* Code points of the characters of the modelled texts (str comparison).
CodePoint(c) ==
  CASE c = "\n" -> 10  [] c = " " -> 32   [] c = ";" -> 59  [] c = "A" -> 65
    [] c = "B" -> 66   [] c = "C" -> 67   [] c = "N" -> 78  [] c = "a" -> 97
    [] c = "c" -> 99   [] c = "e" -> 101  [] c = "g" -> 103 [] c = "i" -> 105
    [] c = "l" -> 108  [] c = "m" -> 109  [] c = "n" -> 110 [] c = "p" -> 112
    [] c = "s" -> 115  [] c = "u" -> 117  [] c = "{" -> 123 [] c = "}" -> 125
    [] c = "~" -> 65279

\* str.__lt__: lexicographic by code point, a proper prefix being smaller.
RECURSIVE StrLessFrom(_, _, _)
StrLessFrom(a, b, i) ==
  IF i > Len(b) THEN FALSE
  ELSE IF i > Len(a) THEN TRUE
  ELSE IF SubSeq(a, i, i) = SubSeq(b, i, i) THEN StrLessFrom(a, b, i + 1)
  ELSE CodePoint(SubSeq(a, i, i)) < CodePoint(SubSeq(b, i, i))

StrLess(a, b) == StrLessFrom(a, b, 1)

\* sorted(usings): the strings of a set in ascending order.
RECURSIVE sorted(_)
sorted(S) ==
  IF S = {} THEN <<>>
  ELSE LET m == CHOOSE x \in S : \A y \in S \ {x} : StrLess(x, y)
       IN  <<m>> \o sorted(S \ {m})

\* What a sequence of print(s, end='') calls writes.
RECURSIVE Concat(_)
Concat(ss) == IF ss = <<>> THEN "" ELSE Head(ss) \o Concat(Tail(ss))

\* The index of the first "\n" of t at or after i; 0 when there is none.
RECURSIVE NextNewline(_, _)
NextNewline(t, i) ==
  IF i > Len(t) THEN 0
  ELSE IF SubSeq(t, i, i) = "\n" THEN i
  ELSE NextNewline(t, i + 1)

\* Iterating a text file: the lines of t from index i on, each with its
\* terminator; a last line without terminator is yielded as it is.
RECURSIVE LinesFrom(_, _)
LinesFrom(t, i) ==
  IF i > Len(t) THEN <<>>
  ELSE LET n == NextNewline(t, i)
       IN  IF n = 0 THEN <<SubSeq(t, i, Len(t))>>
           ELSE <<SubSeq(t, i, n)>> \o LinesFrom(t, n + 1)

Lines(t) == LinesFrom(t, 1)

\* encoding='utf-8' in place of 'utf-8-sig': the marker stays in the text.
DecodeUtf8(raw) == raw

\* encoding='utf-8-sig': one leading marker is dropped by the decoder.  (The
\* modelled files hold no '\r', so the newline translation of text mode
\* leaves the text as it is.)
Decode(raw) ==
  IF StartsWith(raw, BOM) THEN SubSeq(raw, Len(BOM) + 1, Len(raw)) ELSE raw

\* str.lstrip
RECURSIVE LStrip(_)
LStrip(s) == IF StartsWith(s, " ") THEN LStrip(SubSeq(s, 2, Len(s))) ELSE s

\* The chain applied to line.lstrip(): indentation no longer protects a line.
ClassifyStripped(line) ==
  IF StartsWith(LStrip(line), "using") THEN "using"
  ELSE IF StartsWith(LStrip(line), "namespace") THEN "namespace"
  ELSE IF StartsWith(LStrip(line), "{") \/ StartsWith(LStrip(line), "}") THEN "brace"
  ELSE "code"

\* The if/elif chain of the loop body: which branch a line takes.
Classify(line) ==
  IF StartsWith(line, "using") THEN "using"
  ELSE IF StartsWith(line, "namespace") THEN "namespace"
  ELSE IF StartsWith(line, "{") \/ StartsWith(line, "}") THEN "brace"
  ELSE "code"

\* ------------------------------------------------------------------ inputs
\* The sequences of at most n members of S.
SeqsOver(S, n) == UNION {[1..k -> S] : k \in 0..n}

\* A file's bytes: an optional marker, the lines, the last one with or
\* without its terminator.
RECURSIVE Joined(_)
Joined(ls) == IF ls = <<>> THEN "" ELSE Head(ls) \o "\n" \o Joined(Tail(ls))

FileBytes(bom, ls, eol) ==
  LET t == Joined(ls)
      body == IF eol \/ t = "" THEN t ELSE SubSeq(t, 1, Len(t) - 1)
  IN  (IF bom THEN BOM ELSE "") \o body

\* The files of at most n lines of lineSet, with a marker as markers allows.
FilesOver(lineSet, n, markers) ==
  {FileBytes(bom, ls, eol) :
     bom \in markers, ls \in SeqsOver(lineSet, n), eol \in BOOLEAN}

\* What glob.glob(PATTERN) may find.  Deep: no file, or one file of up to
\* MaxLines lines.  Wide: up to MaxFiles files of at most one line.  Core: up
\* to MaxFiles files of up to MaxCoreLines core lines, without marker.
Deep == SeqsOver(FilesOver(LineSet, MaxLines, BOOLEAN), 1)
Wide == SeqsOver(FilesOver(LineSet, 1, BOOLEAN), MaxFiles)
Core == SeqsOver(FilesOver(CoreLines, MaxCoreLines, {FALSE}), MaxFiles)

\* ------------------------------------------------------------------- state
VARIABLES
  files,          \* glob.glob(PATTERN): the matched files' bytes, in enumeration order
  licenseExists,  \* whether the file LICENSE names exists
  output,         \* the file OUTPUT on disk
  before,         \* OUTPUT as it was when the run started
  pc,             \* where main() is
  srcfile,        \* index in files of the current (last opened) input file
  fp,             \* the open file handles
  rest,           \* decoded text of the open input file not yet iterated
  usings,         \* the set usings
  codes,          \* the list codes
  nread,          \* number of input files read to the end and closed
  error,          \* the error that ended the run, "none" otherwise
  run,            \* number of the run
  previous        \* OUTPUT as the previous completed run left it

vars ==
  << files, licenseExists, output, before, pc, srcfile, fp, rest, usings,
     codes, nread, error, run, previous >>

env == << files, licenseExists, before, run, previous >>

\* The state in which main() is entered, for the given file lists and the
\* given cases of the license file.
Start(fileLists, license) ==
  /\ files \in fileLists
  /\ licenseExists \in license
  /\ output \in {NoFile, Stale}
  /\ before = output
  /\ pc = "loop"
  /\ srcfile = 0
  /\ fp = {}
  /\ rest = ""
  /\ usings = {}
  /\ codes = <<>>
  /\ nread = 0
  /\ error = "none"
  /\ run = 1
  /\ previous = NoFile

\* Any of the directories; LICENSE-MIT is there.
Init == Start(Deep \cup Wide \cup Core, {TRUE})

\* No file or one file; LICENSE-MIT is there or is missing.
InitLicense == Start(Deep, BOOLEAN)

\* An unhandled exception: the run ends, the process and its collections go.
Raise(kind) ==
  /\ pc' = "failed"
  /\ error' = kind
  /\ fp' = {}
  /\ rest' = ""
  /\ usings' = {}
  /\ codes' = <<>>

\* for srcfile in glob.glob(PATTERN): with open(srcfile, 'r', encoding='utf-8-sig') as fp
OpenInput ==
  /\ pc = "loop"
  /\ srcfile < Len(files)
  /\ srcfile' = srcfile + 1
  /\ fp' = fp \cup {<<"in", srcfile + 1>>}
  /\ rest' = Decode(files[srcfile + 1])
  /\ pc' = "reading"
  /\ UNCHANGED << env, output, usings, codes, nread, error >>

\* open(srcfile) raises
OpenInputFail ==
  /\ pc = "loop"
  /\ srcfile < Len(files)
  /\ Raise("input_open")
  /\ UNCHANGED << env, output, srcfile, nread >>

\* for line in fp: one iteration of the loop body
ReadLine ==
  /\ pc = "reading"
  /\ rest # ""
  /\ LET n == NextNewline(rest, 1)
         e == IF n = 0 THEN Len(rest) ELSE n
         line == SubSeq(rest, 1, e)
         kind == Classify(line)
     IN  /\ rest' = SubSeq(rest, e + 1, Len(rest))
         /\ usings' = IF kind = "using" THEN usings \cup {line} ELSE usings
         /\ codes' = IF kind = "code" THEN Append(codes, line) ELSE codes
  /\ UNCHANGED << env, output, pc, srcfile, fp, nread, error >>

\* OUTPUT opened before the inputs are read: a failing read leaves it truncated.
ReadFailTruncated ==
  /\ pc = "reading"
  /\ Raise("input_read")
  /\ output' = [exists |-> TRUE, text |-> ""]
  /\ UNCHANGED << env, srcfile, nread >>

\* reading or decoding raises inside the with block: the handle is released
ReadFail ==
  /\ pc = "reading"
  /\ Raise("input_read")
  /\ UNCHANGED << env, output, srcfile, nread >>

\* open() without a with block: the handle of a read file is never released.
CloseInputLeak ==
  /\ pc = "reading"
  /\ rest = ""
  /\ nread' = nread + 1
  /\ pc' = "loop"
  /\ UNCHANGED << env, output, srcfile, fp, rest, usings, codes, error >>

\* the iteration is exhausted and the with block is left
CloseInput ==
  /\ pc = "reading"
  /\ rest = ""
  /\ fp' = fp \ {<<"in", srcfile>>}
  /\ nread' = nread + 1
  /\ pc' = "loop"
  /\ UNCHANGED << env, output, srcfile, rest, usings, codes, error >>

\* open(OUTPUT, 'a'): the file is created or kept, and written after its end.
OpenOutputAppend ==
  /\ pc = "loop"
  /\ srcfile = Len(files)
  /\ output' = [exists |-> TRUE, text |-> output.text]
  /\ fp' = fp \cup {"out"}
  /\ pc' = "license"
  /\ UNCHANGED << env, srcfile, rest, usings, codes, nread, error >>

\* with open(OUTPUT, 'w') as fp: the file is created or truncated
OpenOutput ==
  /\ pc = "loop"
  /\ srcfile = Len(files)
  /\ output' = [exists |-> TRUE, text |-> ""]
  /\ fp' = fp \cup {"out"}
  /\ pc' = "license"
  /\ UNCHANGED << env, srcfile, rest, usings, codes, nread, error >>

\* open(OUTPUT, 'w') raises
OpenOutputFail ==
  /\ pc = "loop"
  /\ srcfile = Len(files)
  /\ Raise("output_open")
  /\ UNCHANGED << env, output, srcfile, nread >>

\* print(s, end=e, file=fp)
print(s, e, next) ==
  /\ output' = [output EXCEPT !.text = @ \o s \o e]
  /\ pc' = next
  /\ UNCHANGED << env, srcfile, fp, rest, usings, codes, nread, error >>

\* The license copied from the file LICENSE names: open(LICENSE) raises when
\* the file does not exist.
PrintLicenseFromFile ==
  /\ pc = "license"
  /\ licenseExists
  /\ print(LicenseText, "\n", "usings")

\* print('''/* ... */ ''', file=fp)
PrintLicense ==
  /\ pc = "license"
  /\ print(LicenseText, "\n", "usings")

\* A sequence in the opposite order.
RECURSIVE Reversed(_)
Reversed(ss) == IF ss = <<>> THEN <<>> ELSE Append(Reversed(Tail(ss)), Head(ss))

\* for s in usings: the set iterated in an order that is not the sorted one.
PrintUsingsUnsorted ==
  /\ pc = "usings"
  /\ print(Concat(Reversed(sorted(usings))), "", "blank")

\* for s in sorted(usings): print(s, end='', file=fp)
PrintUsings ==
  /\ pc = "usings"
  /\ print(Concat(sorted(usings)), "", "blank")

\* print('', file=fp)
PrintBlank ==
  /\ pc = "blank"
  /\ print("", "\n", "namespace")

\* print('namespace DocoptNet', file=fp); print('{', file=fp)
PrintNamespace ==
  /\ pc = "namespace"
  /\ print("namespace DocoptNet" \o "\n" \o "{", "\n", "codes")

\* for s in codes: print(s, end='', file=fp)
PrintCodes ==
  /\ pc = "codes"
  /\ print(Concat(codes), "", "brace")

\* print('}', file=fp)
PrintBrace ==
  /\ pc = "brace"
  /\ print("}", "\n", "close")

\* the with block of OUTPUT is left
CloseOutput ==
  /\ pc = "close"
  /\ fp' = fp \ {"out"}
  /\ pc' = "done"
  /\ UNCHANGED << env, output, srcfile, rest, usings, codes, nread, error >>

\* a print raises: the with block releases the handle, the file stays as written
WriteFail ==
  /\ pc \in {"license", "usings", "blank", "namespace", "codes", "brace"}
  /\ Raise("output_write")
  /\ UNCHANGED << env, output, srcfile, nread >>

\* main() is run again over the same files
Rerun ==
  /\ pc = "done"
  /\ run < MaxRuns
  /\ run' = run + 1
  /\ previous' = output
  /\ before' = output
  /\ pc' = "loop"
  /\ srcfile' = 0
  /\ usings' = {}
  /\ codes' = <<>>
  /\ nread' = 0
  /\ UNCHANGED << files, licenseExists, output, fp, rest, error >>

Next ==
  \/ OpenInput
  \/ OpenInputFail
  \/ ReadLine
  \/ ReadFail
  \/ CloseInput
  \/ OpenOutput
  \/ OpenOutputFail
  \/ PrintLicense
  \/ PrintUsings
  \/ PrintBlank
  \/ PrintNamespace
  \/ PrintCodes
  \/ PrintBrace
  \/ CloseOutput
  \/ WriteFail

Spec == Init /\ [][Next]_vars

NextTwice == Next \/ Rerun

SpecTwice == Init /\ [][NextTwice]_vars

SpecLicense == InitLicense /\ [][Next]_vars

\* ------------------------------------------------------- what the claims say
\* Every line of every input file, in file-enumeration order and then line
\* order, as the reader of the file sees it.
RECURSIVE AllLines(_)
AllLines(fs) ==
  IF fs = <<>> THEN <<>> ELSE Lines(Decode(Head(fs))) \o AllLines(Tail(fs))

\* A line without its terminator.
Content(l) ==
  IF Len(l) > 0 /\ SubSeq(l, Len(l), Len(l)) = "\n"
  THEN SubSeq(l, 1, Len(l) - 1) ELSE l

IsImport(l) == StartsWith(l, "using")

IsBody(l) ==
  /\ ~StartsWith(l, "using")
  /\ ~StartsWith(l, "namespace")
  /\ SubSeq(l, 1, 1) \notin {"{", "}"}

ExpectedBody == SelectSeq(AllLines(files), IsBody)

\* The distinct texts of the import lines of the input.
ImportTexts ==
  LET imports == SelectSeq(AllLines(files), IsImport)
  IN  {imports[i] : i \in DOMAIN imports}

\* A set of texts in ascending order: the i-th has i-1 smaller ones.
Ascending(S) ==
  [i \in 1..Cardinality(S) |->
     CHOOSE x \in S : Cardinality({y \in S : StrLess(y, x)}) = i - 1]

ExpectedImports == Ascending(ImportTexts)

WrapperOpen == "namespace DocoptNet\n{\n"
WrapperClose == "}\n"

\* The lines of the output file.
OutLines == Lines(output.text)

\* The indices of the output lines at which a wrapper-open line pair starts.
OpenAt ==
  {i \in 1..(Len(OutLines) - 1) :
     OutLines[i] = "namespace DocoptNet\n" /\ OutLines[i + 1] = "{\n"}

Finished == pc = "done"

\* C1 (as claimed): the body lines of the output, between the wrapper-open
\* and the wrapper-close line, are exactly the input lines that are neither
\* import, namespace nor brace-first lines, once per occurrence, in
\* file-then-line order.
C1_BodyComplete ==
  Finished =>
    /\ OpenAt # {}
    /\ LET o == CHOOSE i \in OpenAt : \A j \in OpenAt : i <= j
           body == SubSeq(OutLines, o + 2, Len(OutLines) - 1)
       IN  /\ OutLines[Len(OutLines)] = WrapperClose
           /\ Len(body) = Len(ExpectedBody)
           /\ \A k \in 1..Len(body) : Content(body[k]) = Content(ExpectedBody[k])

\* C2 (as claimed): every input line starting with 'using' appears exactly
\* once among the lines of the output.
C2_ImportOnce ==
  Finished =>
    LET out == OutLines
    IN  \A u \in ImportTexts :
          Cardinality({k \in DOMAIN out : Content(out[k]) = Content(u)}) = 1

\* C3 (as claimed): the output holds exactly one wrapper-open line pair and
\* exactly one line consisting of '}' alone, which is its last line.
C3_Wrapped ==
  Finished =>
    /\ Cardinality(OpenAt) = 1
    /\ Cardinality({k \in DOMAIN OutLines : OutLines[k] = WrapperClose}) = 1
    /\ OutLines[Len(OutLines)] = WrapperClose

\* C4: a second run over the same files leaves the output file exactly as the
\* first run left it, whatever the file held before.
C4_Idempotent == (Finished /\ run > 1) => output = previous

C4_Witness ==
  /\ Finished
  /\ run = 2
  /\ Len(files) = 2
  /\ usings # {}
  /\ codes # <<>>
  /\ output = previous

RECURSIVE NoMarkerFrom(_, _)
NoMarkerFrom(s, i) ==
  IF i > Len(s) THEN TRUE
  ELSE SubSeq(s, i, i) # BOM /\ NoMarkerFrom(s, i + 1)

NoMarker(s) == NoMarkerFrom(s, 1)

\* C6 (as claimed): with the license file missing the run fails before any
\* output is written: OUTPUT stays as it was and the run never completes.
C6_MissingLicenseFails == ~licenseExists => (output = before /\ ~Finished)

\* C6 (amended): the license block is the inlined literal and the file LICENSE
\* names is never opened: whether or not it exists, the license step can be
\* taken once OUTPUT is open, and a completed run has written the literal.
C6_LicenseInlined ==
  /\ pc = "license" => ENABLED PrintLicense
  /\ Finished => StartsWith(output.text, LicenseText \o "\n")

C6_Witness == Finished /\ ~licenseExists /\ error = "none" /\ output # before

\* C7: an input file's leading marker is removed before its first line is
\* classified: no collected line, no unread text and no output a run leaves
\* (complete or cut short) holds the marker, and the first line of a file that starts with the
\* marker is classified by the text after the marker.
C7_BomStripped ==
  /\ \A u \in usings : NoMarker(u)
  /\ \A k \in DOMAIN codes : NoMarker(codes[k])
  /\ NoMarker(rest)
  /\ pc \in {"done", "failed"} =>
       IF StartsWith(output.text, LicenseText)
       THEN NoMarkerFrom(output.text, Len(LicenseText) + 1)
       ELSE NoMarker(output.text)
  /\ pc \notin {"failed"} =>
       \A i \in 1..nread :
         (StartsWith(files[i], BOM) /\ Len(files[i]) > Len(BOM)) =>
           LET first == Lines(SubSeq(files[i], Len(BOM) + 1, Len(files[i])))[1]
           IN  /\ IsImport(first) => first \in usings
               /\ IsBody(first) => \E k \in DOMAIN codes : codes[k] = first

C7_Witness ==
  /\ Finished
  /\ \E i \in DOMAIN files : StartsWith(files[i], BOM \o "using A;")
  /\ \E i \in DOMAIN files : StartsWith(files[i], BOM \o "class C {}")
  /\ "using A;\n" \in usings
  /\ codes # <<>>

\* C8: each line read takes exactly one outcome, decided by its prefix in
\* priority order: 'using' adds it to usings; else 'namespace' drops it; else
\* a first character '{' or '}' drops it; else it is appended to codes as it
\* is.  A keyword or brace elsewhere in the line changes nothing.
C8_LineStep ==
  (pc = "reading" /\ pc' = "reading" /\ rest' # rest) =>
    LET line == SubSeq(rest, 1, Len(rest) - Len(rest'))
    IN  /\ rest = line \o rest'
        /\ NextNewline(line, 1) \in {0, Len(line)}
        /\ (NextNewline(line, 1) = 0) => rest' = ""
        /\ IF StartsWith(line, "using")
           THEN usings' = usings \cup {line} /\ codes' = codes
           ELSE IF StartsWith(line, "namespace")
           THEN usings' = usings /\ codes' = codes
           ELSE IF SubSeq(line, 1, 1) = "{" \/ SubSeq(line, 1, 1) = "}"
           THEN usings' = usings /\ codes' = codes
           ELSE usings' = usings /\ codes' = Append(codes, line)

\* C8: every step that reads a line classifies it as C8_LineStep says.
C8_Classification == [][C8_LineStep]_vars

C8_Witness ==
  /\ pc = "reading"
  /\ codes = <<" using {\n", "class C {}\n">>
  /\ usings = {"using A;\n"}
  /\ rest = ""

\* C9: at most one file is open at any time; an input file is opened only
\* when all the files before it were read to the end and closed; OUTPUT is
\* open only when every input file was; a run that ended, in an error too,
\* holds no open file.
C9_HandleDiscipline ==
  /\ Cardinality(fp) <= 1
  /\ pc = "loop" => (fp = {} /\ nread = srcfile)
  /\ pc = "reading" => (fp = {<<"in", srcfile>>} /\ nread = srcfile - 1)
  /\ pc \in {"license", "usings", "blank", "namespace", "codes", "brace", "close"}
       => (fp = {"out"} /\ nread = Len(files))
  /\ pc \in {"done", "failed"} => fp = {}

C9_Witness ==
  /\ pc = "failed"
  /\ error = "input_read"
  /\ srcfile = 2
  /\ nread = 1

\* C10: OUTPUT is touched only after every input file was read to the end: a
\* run ended by a failing open or read of an input leaves OUTPUT as it was,
\* a changed OUTPUT means all inputs were read, and a failed run takes no
\* further step.
C10_InputFailureKeepsOutput ==
  /\ error \in {"input_open", "input_read"} => output = before
  /\ output # before => nread = Len(files)
  /\ (pc = "failed" /\ output # before) => error = "output_write"
  /\ pc = "failed" => ~ENABLED Next

C10_Witness ==
  /\ pc = "failed"
  /\ error = "input_read"
  /\ nread = 1
  /\ before = Stale
  /\ output = Stale

====
